---- MODULE Spec2Model ----
(***************************************************************************)
(* Captcha lifecycle of the Telegram captcha bot (src/bot.py, src/db.py).  *)
(*                                                                         *)
(* Every inbound update (callback query, ordinary message, member join)    *)
(* and every scheduled kick_after_timeout runs as its own asyncio task.    *)
(* A task runs without interruption between two awaits, so each action    *)
(* below is the code from one await to the next: the awaited call takes    *)
(* effect and the code that follows it runs up to the next await.          *)
(* Platform calls (restrict, ban, send, delete, get_chat) may raise; their *)
(* outcome is chosen by the environment.  The SQLite store executes each   *)
(* db.* call atomically.  An awaited platform call that neither reads nor  *)
(* writes the store, the restrictions or the bans (get_chat, the callback  *)
(* acknowledgement, message.delete, the notices) commutes with every step  *)
(* of every other task, so it is folded into the action of the await       *)
(* before it, its outcome still chosen by the environment.                 *)
(*                                                                         *)
(* Strings are sequences of one-character strings, the word "captcha" of   *)
(* the callback payload being one token.                                   *)
(***************************************************************************)
EXTENDS Integers, Sequences, FiniteSets, TLC

\* ------------------------------------------------------------- bounds
MaxHandlers == 3      \* inbound updates handled in one behaviour
MaxIssue == 2         \* challenges issued (rows saved) in one behaviour
MaxActive == 2        \* handler tasks that run at the same time

\* ------------------------------------------------------------- inputs
ChatId == 1                       \* the monitored chat
Users == {1}                      \* the human member who joins and writes
Pressers == {1, 2}                \* the members who press buttons
BotUser == 3                      \* an automated identity
Draws == {<<1, 1>>, <<1, 2>>}     \* values drawn for a and b (the code draws from 1..9)
ChatTypes == {"group", "supergroup"}
Handlers == 1 .. MaxHandlers
Insts == 1 .. MaxIssue

\* ------------------------------------------------------------- strings
Digits == <<"0", "1", "2", "3", "4", "5", "6", "7", "8", "9">>

RECURSIVE Str(_)
\* str(n) of a non-negative integer
Str(n) == IF n < 10 THEN <<Digits[n + 1]>> ELSE Str(n \div 10) \o <<Digits[(n % 10) + 1]>>

DigitVal(c) == CHOOSE d \in 0 .. 9 : Digits[d + 1] = c

IsDigit(c) == \E d \in 0 .. 9 : Digits[d + 1] = c

\* int(s) raises ValueError unless s is a (here: unsigned) decimal numeral
IsIntStr(s) == Len(s) > 0 /\ \A i \in 1 .. Len(s) : IsDigit(s[i])

RECURSIVE IntOf(_)
IntOf(s) == IF Len(s) = 0 THEN 0
            ELSE 10 * IntOf(SubSeq(s, 1, Len(s) - 1)) + DigitVal(s[Len(s)])

\* index of the first sep in s, 0 when there is none
FirstSep(s, sep) ==
    IF \E i \in 1 .. Len(s) : s[i] = sep
    THEN CHOOSE i \in 1 .. Len(s) : s[i] = sep /\ \A j \in 1 .. i - 1 : s[j] # sep
    ELSE 0

RECURSIVE SplitMax(_, _, _)
\* s.split(sep, maxsplit=max): a sequence of strings
SplitMax(s, sep, max) ==
    LET k == FirstSep(s, sep)
    IN IF max = 0 \/ k = 0 THEN <<s>>
       ELSE <<SubSeq(s, 1, k - 1)>> \o SplitMax(SubSeq(s, k + 1, Len(s)), sep, max - 1)

\* ------------------------------------------------------------- challenge generator
\* generate_captcha for the draws a, b: the question text and the answer string
GenerateCaptcha(a, b) ==
    [question |-> Str(a) \o <<" ", "+", " ">> \o Str(b) \o <<" ", "=", " ", "?">>,
     answer   |-> Str(a + b)]

\* the ranges of random.randint in generate_captcha, and the size of the keyboard
Operands == 1 .. 9
Fakes == 2 .. 18
OptionCount == 4

\* a loop that stops one option early
LoopDoneEarly(answers) == Cardinality(answers) >= OptionCount - 1

\* while len(answers) < 4 has ended
LoopDone(answers) == Cardinality(answers) >= OptionCount

\* random.shuffle(list(answers)): every order of the set
Shuffles(answers) ==
    {f \in [1 .. Cardinality(answers) -> answers] :
        \A i, j \in 1 .. Cardinality(answers) : i # j => f[i] # f[j]}

\* callback_data of one keyboard button
CallbackData(chat_id, user_id, answer) ==
    <<"captcha", ":">> \o Str(chat_id) \o <<":">> \o Str(user_id) \o <<":">> \o answer

\* ------------------------------------------------------------- store
NoRow == [absent |-> TRUE]

\* inst is a history field: the ordinal of the save_captcha that wrote the row
SaveCaptcha(d, chat_id, user_id, question, answer, status, inst) ==
    [k \in DOMAIN d \cup {<<chat_id, user_id>>} |->
        IF k = <<chat_id, user_id>>
        THEN [question |-> question, answer |-> answer, status |-> status, inst |-> inst]
        ELSE d[k]]

GetCaptcha(d, chat_id, user_id) ==
    IF <<chat_id, user_id>> \in DOMAIN d THEN d[<<chat_id, user_id>>] ELSE NoRow

UpdateStatus(d, chat_id, user_id, status) ==
    [k \in DOMAIN d |->
        IF k = <<chat_id, user_id>> THEN [d[k] EXCEPT !.status = status] ELSE d[k]]

\* the ordinal of the row stored for a key, 0 when there is none
InstOf(d, chat_id, user_id) ==
    IF <<chat_id, user_id>> \in DOMAIN d THEN d[<<chat_id, user_id>>].inst ELSE 0

\* ------------------------------------------------------------- callback payload
\* on_captcha_answer up to the authorization check: the unpacking of
\* data.split(":", maxsplit=3) inside the try, then int() outside of it
ParseCallback(data) ==
    LET parts == SplitMax(data, ":", 3)
    IN IF Len(parts) # 4
       THEN [kind |-> "unpack_error", chat |-> 0, target |-> 0, answer |-> <<>>]
       ELSE IF ~IsIntStr(parts[2]) \/ ~IsIntStr(parts[3])
       THEN [kind |-> "int_error", chat |-> 0, target |-> 0, answer |-> <<>>]
       ELSE [kind |-> "ok", chat |-> IntOf(parts[2]), target |-> IntOf(parts[3]),
             answer |-> parts[4]]

\* ------------------------------------------------------------- inbound payloads
ChatFields == {Str(ChatId), <<"x">>}
UserFields == {Str(1), <<"x">>}
AnswerFields == {Str(2), Str(3)}

RECURSIVE JoinFields(_)
\* ":".join(fs)
JoinFields(fs) ==
    IF Len(fs) = 0 THEN <<>>
    ELSE IF Len(fs) = 1 THEN fs[1]
    ELSE fs[1] \o <<":">> \o JoinFields(Tail(fs))

\* the buttons the bot builds, payloads of zero to three fields after "captcha:",
\* and one whose answer holds a colon
Payloads ==
    {CallbackData(ChatId, u, GenerateCaptcha(ab[1], ab[2]).answer) :
        u \in Users, ab \in Draws}
    \cup {<<"captcha", ":">>}
    \cup {<<"captcha", ":">> \o c : c \in ChatFields}
    \cup {<<"captcha", ":">> \o JoinFields(<<c, u>>) : c \in ChatFields, u \in UserFields}
    \cup {<<"captcha", ":">> \o JoinFields(<<c, u, a>>) :
            c \in ChatFields, u \in UserFields, a \in AnswerFields}
    \cup {CallbackData(ChatId, 1, <<"2", ":", "2">>)}

\* the fields of a payload, split at every colon
Fields(data) == SplitMax(data, ":", Len(data))

\* a payload is malformed when it has fewer than four colon-separated fields or
\* when its chat id or user id field is no integer
Malformed(data) ==
    Len(Fields(data)) < 4 \/ ~IsIntStr(Fields(data)[2]) \/ ~IsIntStr(Fields(data)[3])

\* what the handler makes of each payload (res), with the payload's class: whether
\* it is malformed and, when it is not, the key and answer it names
Dispatches ==
    {[mal |-> Malformed(p),
      key |-> IF Malformed(p) THEN <<0, 0>>
              ELSE <<IntOf(Fields(p)[2]), IntOf(Fields(p)[3])>>,
      ans |-> IF Malformed(p) THEN <<>>
              ELSE JoinFields(SubSeq(Fields(p), 4, Len(Fields(p)))),
      res |-> ParseCallback(p)] : p \in Payloads}

\* ------------------------------------------------------------- state
VARIABLES
    chatType,     \* chat.type of the monitored chat
    db,           \* table captchas: (chat_id, user_id) -> row
    restricted,   \* platform: users whose posting the bot has restricted
    banned,       \* platform: users the bot has removed
    proc,         \* one record per inbound update: the handler task and its locals
    timer,        \* one record per issued challenge: its kick_after_timeout task
    issues,       \* history: one record per start_captcha_flow that saved a row
    last,         \* history: the handler that finished last, with its outcome
    audit,        \* history is kept of the outcome of every platform call
    gen           \* the locals of a generate_captcha call followed draw by draw

vars == <<chatType, db, restricted, banned, proc, timer, issues, last, audit, gen>>

IdleProc == [kind |-> "idle", pc |-> "idle"]

\* a handler that has returned (or raised) holds nothing any more
DoneProc == [kind |-> "done", pc |-> "done"]

\* the handler record p as it stands once the handler has finished
Finish(p) == IF p.pc = "done" THEN DoneProc ELSE p

\* history: the record of the handler that finishes in this step, if one does
Last(p) == IF p.pc = "done" THEN p ELSE last

\* The locals of a timeout task, and its history: saw and sawStatus (the ordinal
\* and the status of the row it read, 0 and "absent" for none), late (its own
\* challenge had been set solved when it read), ban and notice (the outcome of
\* the removal call and of the removal notice), diag (the diagnostic was
\* sent), wrote (the ordinal of the row whose status it set).
NoTimer == [pc |-> "unsched", seq |-> 0, user |-> 0, saw |-> 0, sawStatus |-> "none",
            late |-> FALSE, ban |-> "none", wrote |-> 0, notice |-> "none",
            diag |-> FALSE]

InitState ==
    /\ chatType \in ChatTypes
    /\ db = <<>>
    /\ restricted = [u \in Pressers |-> FALSE]
    /\ banned = [u \in Pressers |-> FALSE]
    /\ proc = [h \in Handlers |-> IdleProc]
    /\ timer = [i \in Insts |-> NoTimer]
    /\ issues = <<>>
    /\ last = [kind |-> "none"]

\* no generate_captcha call is followed draw by draw
GenIdle == [pc |-> "idle"]

Init == InitState /\ audit = FALSE /\ gen = GenIdle

\* updates are taken from the queue in order: slot h starts after slot h - 1
CanStart(h) ==
    /\ proc[h].pc = "idle"
    /\ IF h = 1 THEN TRUE ELSE proc[h - 1].pc # "idle"
    /\ Cardinality({g \in Handlers : proc[g].pc \notin {"idle", "done"}}) < MaxActive

Outcome(ok) == IF ok THEN "ok" ELSE "fail"

\* history of a platform call whose outcome decides nothing: that it was made,
\* and its outcome under audit
Called(ok) == IF audit THEN Outcome(ok) ELSE "called"

IsPending(row) == row # NoRow /\ row.status = "pending"

\* history: the status of the row stored for a key is set to "solved" by an
\* answer handler; the record of the challenge this hits remembers it
MarkSolved(chat_id, user_id) ==
    IF InstOf(db, chat_id, user_id) = 0 THEN issues
    ELSE [issues EXCEPT ![InstOf(db, chat_id, user_id)].solved = TRUE]

\* history: an answer to the challenge of ordinal inst is rejected as wrong
MarkWrong(inst) == [issues EXCEPT ![inst].wrong = TRUE]

\* ------------------------------------------------------------- on_captcha_answer
\* only the user the captcha is for may press the button
\* a handler without the ownership check
ForeignNever(from_user_id, target_user_id) == FALSE

Foreign(from_user_id, target_user_id) == from_user_id # target_user_id

\* the challenge is no longer active
\* a handler that takes every stored row for an active challenge
AnsInactiveAbsentOnly(row) == row = NoRow

AnsInactive(row) == row = NoRow \/ row.status # "pending"

\* a handler that compares nothing
AnsWrongNever(answer, row) == FALSE

AnsWrong(answer, row) == answer # row.answer

\* after bot.get_chat: the lift is attempted in a supergroup only, and an
\* exception of get_chat skips it
AfterGetChat(ok, chat_type) == IF ok /\ chat_type = "supergroup" THEN "lift" ELSE "update"

\* the status written once the answer is accepted
SolvedStatus == "solved"

\* The locals of a callback handler (chat, target, answer) and its history:
\* mal (the payload is malformed), diff (the presser is not the user the
\* payload names), hit (the payload names a challenge that is pending and its
\* answer, when the update arrives), first (the ordinal of the stored
\* challenge, when a handler has set it solved before this update arrived),
\* saw and sawStatus (the ordinal and the status of the row read), correct
\* (the answer is the one of the row read), again (the handler read the
\* challenge `first` and its answer is the stored one), lift (the un-restrict
\* call), set (the status of the row once the handler has written it).
\* A finished handler keeps its outcome and history only.
AnsProc(from, d, pc, outcome) ==
    [kind |-> "ans", pc |-> pc, outcome |-> outcome,
     chat |-> IF pc = "done" THEN 0 ELSE d.res.chat,
     target |-> IF pc = "done" THEN 0 ELSE d.res.target,
     answer |-> IF pc = "done" THEN <<>> ELSE d.res.answer,
     mal |-> d.mal,
     diff |-> ~d.mal /\ from # d.key[2],
     hit |-> /\ pc = "done"
             /\ ~d.mal
             /\ IsPending(GetCaptcha(db, d.key[1], d.key[2]))
             /\ GetCaptcha(db, d.key[1], d.key[2]).answer = d.ans,
     first |-> IF pc # "done" /\ InstOf(db, d.res.chat, d.res.target) # 0
                  /\ issues[InstOf(db, d.res.chat, d.res.target)].solved
               THEN InstOf(db, d.res.chat, d.res.target) ELSE 0,
     saw |-> 0, sawStatus |-> "none", correct |-> FALSE, again |-> FALSE,
     lift |-> "none", set |-> "none"]

AnsDone(p, outcome) ==
    [p EXCEPT !.pc = "done", !.outcome = outcome, !.chat = 0, !.target = 0,
              !.answer = <<>>, !.first = 0, !.lift = "none"]

\* dispatch of a callback query: parse, authorize, then await db.get_captcha
AnsStart(h) ==
    /\ CanStart(h)
    /\ \E from \in Pressers, d \in Dispatches :
         LET p == IF d.res.kind = "unpack_error" THEN AnsProc(from, d, "done", "malformed")
                  ELSE IF d.res.kind = "int_error" THEN AnsProc(from, d, "done", "crashed")
                  ELSE IF Foreign(from, d.res.target)
                       THEN AnsProc(from, d, "done", "foreign")
                  ELSE AnsProc(from, d, "read", "none")
         IN proc' = [proc EXCEPT ![h] = Finish(p)] /\ last' = Last(p)
    /\ UNCHANGED <<gen, audit, chatType, db, restricted, banned, timer, issues>>

\* db.get_captcha returns; an inactive challenge or a wrong answer ends the
\* handler, a correct one goes on to bot.get_chat, which returns or raises
AnsRead(h) ==
    /\ proc[h].kind = "ans" /\ proc[h].pc = "read"
    /\ \E ok \in BOOLEAN :
        LET p == proc[h]
            row == GetCaptcha(db, p.chat, p.target)
            q == [p EXCEPT !.saw = IF row = NoRow THEN 0 ELSE row.inst,
                           !.sawStatus = IF row = NoRow THEN "absent" ELSE row.status,
                           !.correct = row # NoRow /\ p.answer = row.answer,
                           !.again = /\ row # NoRow
                                     /\ p.first = row.inst
                                     /\ p.answer = row.answer]
            r == IF AnsInactive(row) THEN AnsDone(q, "inactive")
                 ELSE IF AnsWrong(p.answer, row) THEN AnsDone(q, "wrong")
                 ELSE [q EXCEPT !.pc = AfterGetChat(ok, chatType), !.outcome = "accepted"]
        IN /\ proc' = [proc EXCEPT ![h] = Finish(r)]
           /\ last' = Last(r)
           /\ issues' = IF r.outcome = "wrong" THEN MarkWrong(row.inst) ELSE issues
    /\ UNCHANGED <<gen, audit, chatType, db, restricted, banned, timer>>

\* bot.restrict_chat_member with the permissions restored returns or raises
AnsLift(h) ==
    /\ proc[h].kind = "ans" /\ proc[h].pc = "lift"
    /\ \E ok \in BOOLEAN :
         /\ proc' = [proc EXCEPT ![h].pc = "update", ![h].lift = Outcome(ok)]
         /\ restricted' = IF ok THEN [restricted EXCEPT ![proc[h].target] = FALSE]
                          ELSE restricted
    /\ UNCHANGED <<gen, audit, chatType, db, banned, timer, issues, last>>

\* db.update_status(chat_id, target_user_id, "solved"), then callback.answer and
\* the best-effort removal of the keyboard
AnsUpdate(h) ==
    /\ proc[h].kind = "ans" /\ proc[h].pc = "update"
    /\ db' = UpdateStatus(db, proc[h].chat, proc[h].target, SolvedStatus)
    /\ issues' = MarkSolved(proc[h].chat, proc[h].target)
    /\ proc' = [proc EXCEPT ![h] = DoneProc]
    /\ last' = [AnsDone(proc[h], "accepted") EXCEPT
                  !.set = IF GetCaptcha(db', proc[h].chat, proc[h].target) = NoRow
                          THEN "absent"
                          ELSE GetCaptcha(db', proc[h].chat, proc[h].target).status]
    /\ UNCHANGED <<gen, audit, chatType, restricted, banned, timer>>

\* ------------------------------------------------------------- kick_after_timeout
\* the timeout check gives up unless the stored challenge is pending
TimeoutSkips(row) == row = NoRow \/ row.status # "pending"

\* a timeout check that writes the status whatever the removal call did, and
\* one that repeats a failed removal call
AfterBanKick(ok) == "update"
AfterBanRetry(ok) == IF ok THEN "update" ELSE "ban"

\* after bot.ban_chat_member: the status write on success, the except branch on failure
AfterBan(ok) == IF ok THEN "update" ELSE "done"

\* the "could not remove" diagnostic is sent from the except branch, which an
\* exception of the ban or of the removal notice reaches
DiagSent(ban, notice) == ban = "fail" \/ notice = "fail"

KickedStatus == "kicked"

\* asyncio.sleep(60) returns; every task sleeps equally long, so they wake in the
\* order in which they were created
TimerExpire(i) ==
    /\ timer[i].pc = "sleep"
    /\ \A j \in Insts : timer[j].pc = "sleep" => timer[j].seq >= timer[i].seq
    /\ timer' = [timer EXCEPT ![i].pc = "read"]
    /\ UNCHANGED <<gen, audit, chatType, db, restricted, banned, proc, issues, last>>

\* db.get_captcha returns and the row is checked
TimerRead(i) ==
    /\ timer[i].pc = "read"
    /\ LET row == GetCaptcha(db, ChatId, timer[i].user)
       IN timer' = [timer EXCEPT
            ![i].pc = IF TimeoutSkips(row) THEN "done" ELSE "ban",
            ![i].saw = IF row = NoRow THEN 0 ELSE row.inst,
            ![i].sawStatus = IF row = NoRow THEN "absent" ELSE row.status,
            ![i].late = issues[i].solved]
    /\ UNCHANGED <<gen, audit, chatType, db, restricted, banned, proc, issues, last>>

\* bot.ban_chat_member returns or raises; when it raises, the except branch
\* sends the diagnostic (an exception of that send is logged and swallowed)
TimerBan(i) ==
    /\ timer[i].pc = "ban"
    /\ \E ok \in BOOLEAN :
         /\ timer' = [timer EXCEPT
               ![i].pc = AfterBan(ok),
               ![i].ban = Outcome(ok),
               ![i].diag = DiagSent(Outcome(ok), "none")]
         /\ banned' = IF ok THEN [banned EXCEPT ![timer[i].user] = TRUE] ELSE banned
    /\ UNCHANGED <<gen, audit, chatType, db, restricted, proc, issues, last>>

\* db.update_status(chat_id, user_id, "kicked"), then bot.get_chat_member (its
\* failure only changes the mention) and bot.send_message with the removal
\* notice, which returns or raises; when it raises, the except branch sends
\* the diagnostic
TimerUpdate(i) ==
    /\ timer[i].pc = "update"
    /\ db' = UpdateStatus(db, ChatId, timer[i].user, KickedStatus)
    /\ \E ok \in BOOLEAN :
         timer' = [timer EXCEPT
            ![i].pc = "done",
            ![i].wrote = InstOf(db, ChatId, timer[i].user),
            ![i].notice = Outcome(ok),
            ![i].diag = DiagSent(timer[i].ban, Outcome(ok))]
    /\ UNCHANGED <<gen, audit, chatType, restricted, banned, proc, issues, last>>

\* ------------------------------------------------------------- start_captcha_flow
\* a flow that restricts in every chat
CanRestrictAny(chat_type) == TRUE

CanRestrict(chat_type) == chat_type = "supergroup"

IssueStatus == "pending"

\* generate_captcha and db.save_captcha, for the handler task h and the user u
FlowSave(h, u) ==
    /\ Len(issues) < MaxIssue
    /\ \E ab \in Draws :
         db' = SaveCaptcha(db, ChatId, u, GenerateCaptcha(ab[1], ab[2]).question,
                           GenerateCaptcha(ab[1], ab[2]).answer, IssueStatus,
                           Len(issues) + 1)
    /\ issues' = Append(issues, [user |-> u, solved |-> FALSE, wrong |-> FALSE])
    /\ proc' = [proc EXCEPT ![h].pc = IF CanRestrict(chatType) THEN "restrict" ELSE "send",
                            ![h].inst = Len(issues) + 1,
                            ![h].prev = IF GetCaptcha(db, ChatId, u) = NoRow THEN "absent"
                                        ELSE GetCaptcha(db, ChatId, u).status,
                            ![h].stored = GetCaptcha(db', ChatId, u).status]
    /\ UNCHANGED <<gen, audit, chatType, restricted, banned, timer, last>>

\* a flow that gives up when the restrict call raises
AfterRestrictAbort(ok) == IF ok THEN "send" ELSE "done"

\* an exception of bot.restrict_chat_member is logged and the flow goes on
AfterRestrict(ok) == "send"

\* bot.restrict_chat_member with every permission withdrawn returns or raises
FlowRestrict(h, u) ==
    /\ \E ok \in BOOLEAN :
         /\ restricted' = IF ok THEN [restricted EXCEPT ![u] = TRUE] ELSE restricted
         /\ proc' = [proc EXCEPT ![h].pc = AfterRestrict(ok), ![h].restrict = Called(ok)]
    /\ UNCHANGED <<gen, audit, chatType, db, banned, timer, issues, last>>

\* bot.send_message with the prompt returns or raises, then
\* asyncio.create_task(kick_after_timeout(...)); the handler goes on as `next`
FlowSend(h, u, next) ==
    /\ \E ok \in BOOLEAN :
         /\ proc' = [proc EXCEPT ![h] = Finish([next EXCEPT !.prompt = Called(ok)])]
         /\ last' = Last([next EXCEPT !.prompt = Called(ok),
                                      !.inst = IF audit THEN next.inst ELSE 0])
    /\ timer' = [timer EXCEPT ![proc[h].inst] =
                   [NoTimer EXCEPT !.pc = "sleep", !.user = u,
                       !.seq = Cardinality({j \in Insts : timer[j].pc # "unsched"}) + 1]]
    /\ UNCHANGED <<gen, audit, chatType, db, restricted, banned, issues>>

\* ------------------------------------------------------------- on_user_join
IsBot(user) == user = BotUser

\* the member lists of a join update: one or two distinct identities
JoinLists ==
    {ms \in UNION {[1 .. n -> Users \cup {BotUser}] : n \in 1 .. 2} :
        \A i \in 1 .. Len(ms), j \in 1 .. Len(ms) : i # j => ms[i] # ms[j]}

\* a loop that ends at the first bot
NextHumanUntilBot(members, i) ==
    IF i + 1 <= Len(members) /\ members[i + 1] # BotUser THEN i + 1 ELSE 0

\* the index of the first member after position i that is no bot, 0 when there is none
NextHuman(members, i) ==
    IF \E j \in i + 1 .. Len(members) : ~IsBot(members[j])
    THEN CHOOSE j \in i + 1 .. Len(members) :
            /\ ~IsBot(members[j])
            /\ \A k \in i + 1 .. j - 1 : IsBot(members[k])
    ELSE 0

\* the number of bots in a member list
Bots(members) == Cardinality({j \in 1 .. Len(members) : IsBot(members[j])})

\* The locals of a join handler: the member list, the index i of the member
\* whose flow runs and the ordinal inst of the row saved for it.  History:
\* bots and humans (the bots and the others in the list), flows (the flows
\* that have run), prev and stored (the status of the row before and after the
\* last flow saved it), restrict and prompt (the last flow's restrict call and
\* prompt send).
\* the loop over message.new_chat_members, up to the first start_captcha_flow
JoinStart(h) ==
    /\ CanStart(h)
    /\ \E ms \in JoinLists :
         LET p == [kind |-> "join", members |-> ms, i |-> NextHuman(ms, 0), inst |-> 0,
                   prev |-> "none", stored |-> "none", restrict |-> "none",
                   prompt |-> "none", bots |-> Bots(ms),
                   humans |-> Cardinality({j \in 1 .. Len(ms) : ms[j] # BotUser}),
                   flows |-> 0,
                   pc |-> IF NextHuman(ms, 0) = 0 THEN "done" ELSE "save"]
         IN proc' = [proc EXCEPT ![h] = Finish(p)] /\ last' = Last(p)
    /\ UNCHANGED <<gen, audit, chatType, db, restricted, banned, timer, issues>>

JoinSave(h) ==
    /\ proc[h].kind = "join" /\ proc[h].pc = "save"
    /\ FlowSave(h, proc[h].members[proc[h].i])

JoinRestrict(h) ==
    /\ proc[h].kind = "join" /\ proc[h].pc = "restrict"
    /\ FlowRestrict(h, proc[h].members[proc[h].i])

\* the flow of member i ends and the loop goes on to the next member
JoinSend(h) ==
    /\ proc[h].kind = "join" /\ proc[h].pc = "send"
    /\ LET p == proc[h]
           j == NextHuman(p.members, p.i)
       IN FlowSend(h, p.members[p.i],
                   [p EXCEPT !.pc = IF j = 0 THEN "done" ELSE "save",
                             !.i = IF j = 0 THEN 0 ELSE j,
                             !.flows = @ + 1,
                             !.members = IF j = 0 THEN <<>> ELSE p.members])

\* ------------------------------------------------------------- on_any_message
\* a router that lets nobody through, and one that takes any stored row for
\* a challenge in flight
MsgAllowedNever(row) == FALSE
MsgSuppressAny(row) == row # NoRow

\* the sender has passed the captcha
MsgAllowed(row) == row # NoRow /\ row.status = "solved"

\* a challenge is in flight: no second one
\* a router that never suppresses
MsgSuppressNever(row) == FALSE

MsgSuppress(row) == row # NoRow /\ row.status = "pending"

\* the senders of a message: a user, a bot, or none (0)
Senders == Users \cup {BotUser, 0}

\* The locals of a message handler, and its history: saw (what the handler read:
\* "absent" or the status of the row), del (the outcome of message.delete),
\* inst, prev, stored, restrict and prompt as for a join.
\* dispatch of an ordinary message, up to await db.get_captcha
MsgStart(h) ==
    /\ CanStart(h)
    /\ \E sender \in Senders :
         LET p == [kind |-> "msg", user |-> sender, saw |-> "none", del |-> "none",
                   inst |-> 0, prev |-> "none", stored |-> "none",
                   restrict |-> "none", prompt |-> "none",
                   pc |-> IF sender = 0 \/ IsBot(sender) THEN "done" ELSE "read"]
         IN proc' = [proc EXCEPT ![h] = Finish(p)] /\ last' = Last(p)
    /\ UNCHANGED <<gen, audit, chatType, db, restricted, banned, timer, issues>>

\* db.get_captcha returns; the message of a solved user is left alone; any
\* other is deleted (message.delete returns or raises) and the row read
\* decides whether a challenge is issued
MsgRead(h) ==
    /\ proc[h].kind = "msg" /\ proc[h].pc = "read"
    /\ \E ok \in BOOLEAN :
        LET row == GetCaptcha(db, ChatId, proc[h].user)
            p == [proc[h] EXCEPT
                    !.pc = IF MsgAllowed(row) \/ MsgSuppress(row) THEN "done" ELSE "save",
                    !.saw = IF row = NoRow THEN "absent" ELSE row.status,
                    !.del = IF MsgAllowed(row) THEN "none" ELSE Called(ok)]
        IN proc' = [proc EXCEPT ![h] = Finish(p)] /\ last' = Last(p)
    /\ UNCHANGED <<gen, audit, chatType, db, restricted, banned, timer, issues>>

MsgSave(h) ==
    /\ proc[h].kind = "msg" /\ proc[h].pc = "save"
    /\ FlowSave(h, proc[h].user)

MsgRestrict(h) ==
    /\ proc[h].kind = "msg" /\ proc[h].pc = "restrict"
    /\ FlowRestrict(h, proc[h].user)

MsgSend(h) ==
    /\ proc[h].kind = "msg" /\ proc[h].pc = "send"
    /\ FlowSend(h, proc[h].user, [proc[h] EXCEPT !.pc = "done"])

\* ------------------------------------------------------------- specification
Next ==
    \/ \E h \in Handlers : AnsStart(h)
    \/ \E h \in Handlers : AnsRead(h)
    \/ \E h \in Handlers : AnsLift(h)
    \/ \E h \in Handlers : AnsUpdate(h)
    \/ \E h \in Handlers : JoinStart(h)
    \/ \E h \in Handlers : JoinSave(h)
    \/ \E h \in Handlers : JoinRestrict(h)
    \/ \E h \in Handlers : JoinSend(h)
    \/ \E h \in Handlers : MsgStart(h)
    \/ \E h \in Handlers : MsgRead(h)
    \/ \E h \in Handlers : MsgSave(h)
    \/ \E h \in Handlers : MsgRestrict(h)
    \/ \E h \in Handlers : MsgSend(h)
    \/ \E i \in Insts : TimerExpire(i)
    \/ \E i \in Insts : TimerRead(i)
    \/ \E i \in Insts : TimerBan(i)
    \/ \E i \in Insts : TimerUpdate(i)

Spec == Init /\ [][Next]_vars

\* the timeout checks and the challenge flows run on: one that can take a step
\* takes it (the event loop resumes every task whose sleep or awaited call has
\* returned); no update has to arrive
Fairness ==
    /\ \A i \in Insts : WF_vars(TimerExpire(i)) /\ WF_vars(TimerRead(i))
                        /\ WF_vars(TimerBan(i)) /\ WF_vars(TimerUpdate(i))
    /\ \A h \in Handlers : WF_vars(JoinSave(h)) /\ WF_vars(JoinRestrict(h))
                           /\ WF_vars(JoinSend(h)) /\ WF_vars(MsgRead(h))
                           /\ WF_vars(MsgSave(h)) /\ WF_vars(MsgRestrict(h))
                           /\ WF_vars(MsgSend(h))

LiveSpec == Init /\ [][Next]_vars /\ Fairness

\* a run in which the outcome of every platform call is recorded
AuditInit == InitState /\ audit = TRUE /\ gen = GenIdle
AuditSpec == AuditInit /\ [][Next]_vars

\* ------------------------------------------------------------- properties
Issued == 1 .. Len(issues)
Row(u) == GetCaptcha(db, ChatId, u)
Answering(h) == proc[h].kind = "ans"
Flowing(h) == proc[h].kind \in {"join", "msg"}

\* C1: a challenge never gets both terminal writes: the status of one issued
\* challenge is not set to solved by an answer and to kicked by its own
\* timeout check, however the two interleave.
C1_OneTerminalWrite ==
    \A i \in Issued : ~(issues[i].solved /\ timer[i].wrote = i)

\* C2: a timeout check that reads the row after the correct answer to its
\* challenge has set the status to solved, or that reads no row or a row that
\* is not pending, does nothing: no removal call, no status write, no notice.
C2_TimeoutNoOp ==
    \A i \in Insts :
        (timer[i].pc \in {"ban", "update", "done"}
            /\ (timer[i].late \/ timer[i].sawStatus # "pending"))
        => (timer[i].pc = "done" /\ timer[i].ban = "none" /\ timer[i].wrote = 0
            /\ timer[i].notice = "none" /\ ~timer[i].diag)

\* the part of C2 that the code keeps: a timeout check that reads no row or a
\* row that is not pending does nothing
TimeoutNonPendingNoOp ==
    \A i \in Insts :
        (timer[i].pc \in {"ban", "update", "done"} /\ timer[i].sawStatus # "pending")
        => (timer[i].pc = "done" /\ timer[i].ban = "none" /\ timer[i].wrote = 0
            /\ timer[i].notice = "none" /\ ~timer[i].diag)

\* C3: once a correct answer has set a challenge to solved, the same answer
\* submitted again to the same challenge is rejected as inactive at the read:
\* the handler goes on to no lift call and to no status write.
C3_SecondAnswerInactive ==
    /\ \A h \in Handlers :
          (Answering(h) /\ proc[h].pc \in {"lift", "update"}) => ~proc[h].again
    /\ (last.kind = "ans" /\ last.again)
          => (last.outcome = "inactive" /\ last.lift = "none" /\ last.set = "none")

C3_Witness ==
    last.kind = "ans" /\ last.again /\ last.outcome = "inactive"

\* C4: a press by anyone but the targeted user is rejected before the store is
\* read: the handler never reaches the read, the lift call or the status write,
\* whatever the answer and the stored status.
C4_ForeignRejected ==
    /\ \A h \in Handlers : Answering(h) => ~proc[h].diff
    /\ (last.kind = "ans" /\ last.diff)
          => (last.outcome = "foreign" /\ last.sawStatus = "none"
              /\ last.lift = "none" /\ last.set = "none")

\* a foreign press carrying the right answer of a pending challenge
C4_Witness ==
    last.kind = "ans" /\ last.diff /\ last.hit /\ last.outcome = "foreign"

\* C5: a message of a user whose challenge is pending at the lookup ends at the
\* lookup with the delete attempted: no row is saved, no restrict call, no
\* prompt and no timer.
C5_PendingSuppressed ==
    /\ \A h \in Handlers :
          (proc[h].kind = "msg" /\ proc[h].pc \in {"save", "restrict", "send"})
          => proc[h].saw # "pending"
    /\ (last.kind = "msg" /\ last.saw = "pending")
          => (last.del # "none" /\ last.stored = "none" /\ last.restrict = "none"
              /\ last.prompt = "none")

C5_Witness ==
    last.kind = "msg" /\ last.saw = "pending" /\ last.del # "none"

\* C6: on a pending challenge a wrong answer is rejected as incorrect and
\* nothing is written, and a correct answer (after any wrong ones) is accepted
\* and the handler sets the status to solved.
C6_WrongThenCorrect ==
    /\ \A h \in Handlers :
          (Answering(h) /\ proc[h].pc \in {"lift", "update"})
          => (proc[h].sawStatus = "pending" /\ proc[h].correct)
    /\ (last.kind = "ans" /\ last.sawStatus = "pending" /\ ~last.correct)
          => (last.outcome = "wrong" /\ last.lift = "none" /\ last.set = "none")
    /\ (last.kind = "ans" /\ last.sawStatus = "pending" /\ last.correct)
          => (last.outcome = "accepted" /\ last.set = "solved")

\* a correct answer accepted on a challenge that had a wrong answer before,
\* and a wrong answer rejected
C6_Witness ==
    /\ last.kind = "ans" /\ last.outcome = "accepted" /\ last.set = "solved"
    /\ last.saw \in Issued /\ issues[last.saw].wrong

SolvedEver == \E j \in Issued : issues[j].solved
BanFailedEver == \E j \in Insts : timer[j].ban = "fail"
KickedAfterBan ==
    \E j \in Insts : timer[j].ban = "ok" /\ timer[j].wrote # 0 /\ timer[j].notice # "none"

\* every kicked status was written by a timeout check whose removal call succeeded
KickedOnlyAfterBan ==
    /\ \A j \in Insts : timer[j].wrote # 0 => timer[j].ban = "ok"
    /\ \A u \in Users :
          (Row(u) # NoRow /\ Row(u).status = "kicked") => KickedAfterBan

\* the timeout check of challenge i has run to its end: when its removal call
\* succeeded it set the status to kicked and sent the removal notice, and it
\* made no removal call only when a correct answer had been accepted or the
\* status had been set to kicked already
TimeoutSettled(i) ==
    /\ timer[i].pc = "done"
    /\ timer[i].ban = "ok" => (timer[i].wrote # 0 /\ timer[i].notice # "none")
    /\ timer[i].ban = "none" => (SolvedEver \/ KickedAfterBan)

\* C7: every issued challenge gets its timeout check, which runs to its end;
\* when no correct answer is accepted and the removal call succeeds, the status
\* is set to kicked and the removal notice is sent (the send is made: the
\* platform may still refuse it); kicked is written only after a successful
\* removal call.
C7_TimeoutKicks ==
    /\ []KickedOnlyAfterBan
    /\ \A i \in Insts : (Len(issues) >= i) ~> TimeoutSettled(i)

\* a challenge nobody answered, its user removed, the status kicked, the notice sent
C7_Witness ==
    /\ ~SolvedEver
    /\ timer[1].pc = "done" /\ timer[1].ban = "ok" /\ timer[1].wrote = 1
    /\ timer[1].notice = "ok"
    /\ Row(1) # NoRow /\ Row(1).status = "kicked" /\ banned[1]

C9_MalformedRejected ==
    /\ \A h \in Handlers : Answering(h) => ~proc[h].mal
    /\ (last.kind = "ans" /\ last.mal) => last.outcome = "malformed"

\* C10: in a chat that is no supergroup the flow makes no restrict call, and
\* in every chat it stores the challenge pending, sends the prompt and
\* schedules the timeout check.
C10_FlowWithoutRestrict ==
    /\ \A h \in Handlers :
          Flowing(h) =>
             /\ chatType # "supergroup"
                   => (proc[h].pc # "restrict" /\ proc[h].restrict = "none")
             /\ proc[h].pc \in {"restrict", "send"} => proc[h].stored = "pending"
    /\ (last.kind \in {"join", "msg"} /\ last.stored # "none")
          => /\ last.stored = "pending" /\ last.prompt # "none"
             /\ (last.restrict # "none") = (chatType = "supergroup")
    /\ \A i \in Issued :
          timer[i].pc = "unsched"
          => \E h \in Handlers : Flowing(h) /\ proc[h].inst = i
                                  /\ proc[h].pc \in {"restrict", "send"}
    /\ chatType # "supergroup" => \A u \in Pressers : ~restricted[u]

\* a flow finished in a group: the row pending, the prompt sent, the timer set
C10_Witness ==
    /\ chatType = "group"
    /\ last.kind \in {"join", "msg"} /\ last.stored = "pending"
    /\ last.prompt # "none" /\ last.restrict = "none"
    /\ timer[1].pc = "sleep" /\ IsPending(Row(1))

\* ------------------------------------------------------------- generate_captcha, draw by draw
\* a, b drawn, correct = a + b, answers = {str(correct)}
GenStart ==
    /\ InitState /\ chatType = "supergroup" /\ audit = FALSE
    /\ \E a \in Operands, b \in Operands :
         gen = [pc |-> "loop", a |-> a, b |-> b,
                question |-> GenerateCaptcha(a, b).question,
                answer |-> GenerateCaptcha(a, b).answer,
                answers |-> {GenerateCaptcha(a, b).answer},
                options |-> <<>>]

\* one turn of the loop: fake = random.randint(2, 18); answers.add(str(fake))
GenDraw ==
    /\ gen.pc = "loop" /\ ~LoopDone(gen.answers)
    /\ \E fake \in Fakes : gen' = [gen EXCEPT !.answers = @ \cup {Str(fake)}]
    /\ UNCHANGED <<chatType, db, restricted, banned, proc, timer, issues, last,
                   audit>>

\* options = list(answers); random.shuffle(options); return
GenReturn ==
    /\ gen.pc = "loop" /\ LoopDone(gen.answers)
    /\ \E f \in Shuffles(gen.answers) :
         gen' = [gen EXCEPT !.pc = "returned", !.options = f]
    /\ UNCHANGED <<chatType, db, restricted, banned, proc, timer, issues, last,
                   audit>>

GenNext == GenDraw \/ GenReturn

GenSpec == GenStart /\ [][GenNext]_vars

\* C11: whatever is drawn, generate_captcha returns exactly four pairwise
\* distinct options with the correct answer among them; the correct answer is
\* the sum of the two operands drawn from 1..9, and every other option is a
\* number of 2..18.
C11_FourDistinctOptions ==
    gen.pc = "returned" =>
        /\ Len(gen.options) = 4
        /\ \A i, j \in 1 .. Len(gen.options) : i # j => gen.options[i] # gen.options[j]
        /\ \E i \in 1 .. Len(gen.options) : gen.options[i] = gen.answer
        /\ gen.a \in 1 .. 9 /\ gen.b \in 1 .. 9
        /\ IsIntStr(gen.answer) /\ IntOf(gen.answer) = gen.a + gen.b
        /\ \A i \in 1 .. Len(gen.options) :
              gen.options[i] # gen.answer
              => (IsIntStr(gen.options[i]) /\ IntOf(gen.options[i]) \in 2 .. 18)

\* the largest sum returned with the smallest decoy first
C11_Witness ==
    /\ gen.pc = "returned" /\ gen.a = 9 /\ gen.b = 9
    /\ Len(gen.options) = 4 /\ gen.options[1] = Str(2) /\ gen.options[4] = Str(18)

\* C12: whatever the restrict call and the prompt send do, the flow goes on:
\* the row it saved is pending and it schedules one timeout check of its own;
\* a challenge has no timeout check only while its flow is still running.
C12_FlowSurvivesFailures ==
    /\ (last.kind \in {"join", "msg"} /\ last.inst # 0)
          => /\ last.stored = "pending" /\ last.prompt # "none"
             /\ timer[last.inst].pc # "unsched"
             /\ timer[last.inst].user = issues[last.inst].user
    /\ \A i \in Issued :
          (timer[i].pc = "unsched")
          = (\E h \in Handlers : Flowing(h) /\ proc[h].inst = i
                                  /\ proc[h].pc \in {"restrict", "send"})

\* a flow whose restrict call and prompt send both failed, its row pending,
\* its timeout check asleep
C12_Witness ==
    /\ last.kind \in {"join", "msg"} /\ last.inst # 0
    /\ last.restrict = "fail" /\ last.prompt = "fail" /\ last.stored = "pending"
    /\ timer[last.inst].pc = "sleep"
    /\ IsPending(Row(issues[last.inst].user))

\* a message handler that has looked the sender's row up, and one that has
\* entered start_captcha_flow
MsgLooked(p) == p.kind = "msg" /\ p.saw # "none"
MsgInFlow(p) == p.kind = "msg" /\ p.pc \in {"save", "restrict", "send"}

HumansIn(members, n) == Cardinality({j \in 1 .. n : members[j] # BotUser})

JoinInFlow(p) == p.kind = "join" /\ p.pc \in {"save", "restrict", "send"}

\* no row is stored for a bot, and a join handler runs one flow per human of
\* its list: the flow of member i runs after those of the humans before i
JoinFlowsState ==
    /\ GetCaptcha(db, ChatId, BotUser) = NoRow
    /\ \A i \in Issued : issues[i].user # BotUser
    /\ \A h \in Handlers :
          JoinInFlow(proc[h])
          => /\ proc[h].i \in 1 .. Len(proc[h].members)
             /\ proc[h].members[proc[h].i] # BotUser
             /\ proc[h].flows = HumansIn(proc[h].members, proc[h].i - 1)
             /\ proc[h].pc # "save"
                   => (proc[h].stored = "pending"
                       /\ issues[proc[h].inst].user = proc[h].members[proc[h].i])
    /\ last.kind = "join"
          => /\ last.flows = last.humans
             /\ last.flows > 0 => (last.stored = "pending" /\ last.prompt # "none")

\* the save of a join handler replaces the member's row by a new pending
\* challenge, and changes no other row
JoinSaveStep ==
    \A h \in Handlers :
        (proc[h].kind = "join" /\ proc[h].pc = "save" /\ proc'[h] # proc[h])
        => LET u == proc[h].members[proc[h].i]
           IN /\ IsPending(GetCaptcha(db', ChatId, u))
              /\ GetCaptcha(db', ChatId, u).inst = Len(issues) + 1
              /\ \E ab \in Draws :
                    /\ GetCaptcha(db', ChatId, u).question = GenerateCaptcha(ab[1], ab[2]).question
                    /\ GetCaptcha(db', ChatId, u).answer = GenerateCaptcha(ab[1], ab[2]).answer
              /\ \A v \in (Users \cup {BotUser}) \ {u} :
                    GetCaptcha(db', ChatId, v) = GetCaptcha(db, ChatId, v)

C15_SolvedAllowed ==
    /\ \A h \in Handlers :
          /\ MsgInFlow(proc[h]) => proc[h].saw # "solved"
          /\ proc[h].kind = "msg" => proc[h].user \in Users
    /\ (MsgLooked(last) /\ last.saw = "solved")
          => (last.del = "none" /\ last.stored = "none" /\ last.restrict = "none"
              /\ last.prompt = "none")
    /\ (last.kind = "msg" /\ last.user \notin Users)
          => (last.saw = "none" /\ last.del = "none" /\ last.stored = "none"
              /\ last.restrict = "none" /\ last.prompt = "none")

C15_Witness ==
    /\ MsgLooked(last) /\ last.saw = "solved" /\ last.del = "none"
    /\ Row(last.user) # NoRow /\ Row(last.user).status = "solved"

\* C16: in a supergroup a user whose stored status is solved is not restricted
\* by the bot any more, also when the lift call failed.
C16_SolvedMeansLifted ==
    chatType = "supergroup"
    => \A u \in Users :
          (Row(u) # NoRow /\ Row(u).status = "solved") => ~restricted[u]

\* C17: a timeout check removes the user only for the challenge that scheduled
\* it: the row it acts on is the one its own flow saved, not a later one.
C17_OwnInstanceOnly ==
    \A i \in Insts : timer[i].ban # "none" => timer[i].saw = i

\* the timeout checks of user u that have been scheduled and have not ended
Outstanding(t, u) ==
    {i \in Insts : t[i].user = u /\ t[i].pc \in {"sleep", "read", "ban", "update"}}

\* C18: when the flow of a message handler schedules its timeout check, that
\* check is the only one outstanding for the sender: messages handled
\* together, or together with the sender's join, issue one challenge.
C18_OneChallengePerKey ==
    [][\A h \in Handlers :
          (proc[h].kind = "msg" /\ proc[h].pc = "send" /\ proc'[h] # proc[h])
          => Cardinality(Outstanding(timer', proc[h].user)) <= 1]_vars

\* C19: the "could not remove" diagnostic is sent only by a timeout check whose
\* removal call failed; none is sent once the user is removed and the status
\* kicked, also when the removal notice cannot be sent.
C19_DiagOnlyOnBanFailure ==
    \A i \in Insts : timer[i].diag => timer[i].ban = "fail"

\* C20: when the answer handler writes solved, the answer submitted is the
\* answer of the row stored at that moment.
C20_SolvedMatchesStored ==
    [][\A h \in Handlers :
          (Answering(h) /\ proc[h].pc = "update" /\ proc'[h] # proc[h])
          => /\ GetCaptcha(db, proc[h].chat, proc[h].target) # NoRow
             /\ GetCaptcha(db, proc[h].chat, proc[h].target).answer = proc[h].answer]_vars

====
